---- MODULE Spec2Model ----
(***************************************************************************)
(* Model of the website scraper in src/comprehensive_website_scraper.py    *)
(* and of its driver src/usage_example.py.                                 *)
(*                                                                         *)
(* Python strings that the code inspects (URLs, extracted content,         *)
(* markdown, prompts, keys, paths) are sequences of one-character strings. *)
(* None is the one-element sequence NONE and a missing attribute is        *)
(* ABSENT: neither can be mistaken for a string, whose elements are single *)
(* characters.                                                             *)
(***************************************************************************)
EXTENDS Integers, Sequences, FiniteSets, TLC

VARIABLES
    environ,      \* os.environ: OPENROUTER_API_KEY and DEFAULT_MODEL
    fs,           \* the file system: kind of the output directory, files written,
                  \* whether a write may fail
    web,          \* the result objects the crawler may come back with in this run
    clock,        \* datetime.now(), in whole seconds
    op,           \* the entry point this run calls
    args,         \* its arguments
    pc,           \* position of the running coroutine
    scraper,      \* the ComprehensiveWebsiteScraper object (self)
    frame,        \* locals of the running scrape_website call
    sessions,     \* number of crawler sessions open (async with AsyncWebCrawler)
    batch,        \* locals of the running scrape_multiple_websites call
    tasks,        \* locals of run_all_tasks
    ret,          \* what the entry point returned or raised
    events        \* what has happened so far, in order

vars == <<environ, fs, web, clock, op, args, pc, scraper, frame, sessions, batch,
          tasks, ret, events>>

-----------------------------------------------------------------------------
(* Bounds of the model *)

MaxUrls == 2        \* longest URL list given to scrape_multiple_websites
MaxDelay == 1       \* largest delay argument, in seconds
MaxElapse == 1      \* longest time one crawl or one wake-up from sleep takes
MaxResults == 3     \* longest result list given to _generate_summary_report alone

\* how long a crawl or a wake-up takes: no time to speak of, or the longest
Elapses == {0, MaxElapse}

-----------------------------------------------------------------------------
(* Python values *)

NONE == <<"<None>">>
ABSENT == <<"<absent>">>

\* None where the code expects an object (a strategy, a configuration dict)
NoneObj == [kind |-> "None"]

\* Python truthiness of an Optional[str]: None and "" are falsy
Truthy(v) == v # NONE /\ v # <<>>

\* a or b
PyOr(a, b) == IF Truthy(a) THEN a ELSE b

Min(a, b) == IF a < b THEN a ELSE b

\* s[:n]
Take(s, n) == SubSeq(s, 1, Min(n, Len(s)))

\* s[n:]
Drop(s, n) == SubSeq(s, n + 1, Len(s))

\* s.startswith(p)
StartsWith(s, p) == Len(s) >= Len(p) /\ SubSeq(s, 1, Len(p)) = p

\* s.endswith(p)
EndsWith(s, p) == Len(s) >= Len(p) /\ SubSeq(s, Len(s) - Len(p) + 1, Len(s)) = p

Whitespace == {" "}

RECURSIVE LStrip(_)
LStrip(s) == IF s # <<>> /\ Head(s) \in Whitespace THEN LStrip(Tail(s)) ELSE s

RECURSIVE RStrip(_)
RStrip(s) ==
    IF s # <<>> /\ s[Len(s)] \in Whitespace THEN RStrip(SubSeq(s, 1, Len(s) - 1)) ELSE s

\* s.strip()
Strip(s) == RStrip(LStrip(s))

\* s.replace(a, b) for single characters a, b
Replace(s, a, b) == [i \in 1..Len(s) |-> IF s[i] = a THEN b ELSE s[i]]

\* the set of elements of a sequence
Range(s) == {s[i] : i \in 1..Len(s)}

\* len(s.split()): the number of maximal runs of non-whitespace characters
WordCount(s) ==
    Cardinality({i \in 1..Len(s) :
        s[i] \notin Whitespace /\ (i = 1 \/ s[i - 1] \in Whitespace)})

-----------------------------------------------------------------------------
(* urllib.parse.urlparse(url).netloc *)

Letters == {"a", "b", "c", "d", "h", "p", "q"}
SchemeChars == Letters \cup {"+", "-", "."}
NetlocEnd == {"/", "?", "#"}

\* position of the first element of s that is in set cs, 0 when there is none
FirstIn(s, cs) ==
    IF \E i \in 1..Len(s) : s[i] \in cs
    THEN CHOOSE i \in 1..Len(s) : s[i] \in cs /\ \A j \in 1..(i - 1) : s[j] \notin cs
    ELSE 0

\* the url without its scheme: "scheme:" is split off when the text before the
\* first ':' starts with a letter and holds scheme characters only
AfterScheme(url) ==
    LET i == FirstIn(url, {":"})
    IN  IF /\ i > 1
           /\ url[1] \in Letters
           /\ \A j \in 1..(i - 1) : url[j] \in SchemeChars
        THEN Drop(url, i)
        ELSE url

Netloc(url) ==
    LET rest == AfterScheme(url)
    IN  IF StartsWith(rest, <<"/", "/">>)
        THEN LET body == Drop(rest, 2)
                 e == FirstIn(body, NetlocEnd)
             IN  IF e = 0 THEN body ELSE Take(body, e - 1)
        ELSE <<>>

-----------------------------------------------------------------------------
(* ComprehensiveWebsiteScraper.__init__ *)

OutputDirName == <<"scraped_data">>

\* the parameters __init__ accepts besides self
InitParams == {"api_key"}

\* self.llm_config
GetLlmConfig(api_key, base_url, model) ==
    [kind |-> "dict", provider |-> "openai", api_key |-> api_key,
     base_url |-> base_url, model |-> model]

\* a mutant of ResolveApiKey: the environment value wins over the argument
ResolveApiKeyEnvFirst(api_key, env) == PyOr(env.OPENROUTER_API_KEY, api_key)

\* self.api_key = api_key or os.getenv('OPENROUTER_API_KEY')
ResolveApiKey(api_key, env) == PyOr(api_key, env.OPENROUTER_API_KEY)

\* Path(self.output_dir).mkdir(exist_ok=True): the kind of the path afterwards,
\* "error" for FileExistsError (the path is a regular file)
Mkdir(kind) ==
    CASE kind = "absent" -> "dir"
      [] kind = "dir" -> "dir"
      [] OTHER -> "error"

NoScraper == [constructed |-> FALSE]

\* The call ComprehensiveWebsiteScraper(**kwargs): the exception it raises ("" for
\* none), the object and the file system afterwards.
Construct(kwargs, env, fsys) ==
    LET api_arg == IF "api_key" \in DOMAIN kwargs THEN kwargs.api_key ELSE NONE
        key == ResolveApiKey(api_arg, env)
        made == Mkdir(fsys.kind)
    IN  IF ~(DOMAIN kwargs \subseteq InitParams)
        THEN [exc |-> "TypeError", obj |-> NoScraper, fs |-> fsys, mkdir |-> FALSE]
        ELSE IF ~Truthy(key)
        THEN [exc |-> "ValueError", obj |-> NoScraper, fs |-> fsys, mkdir |-> FALSE]
        ELSE IF made = "error"
        THEN [exc |-> "FileExistsError", obj |-> NoScraper, fs |-> fsys,
              mkdir |-> TRUE]
        ELSE [exc |-> "",
              obj |-> [constructed |-> TRUE,
                       api_key |-> key,
                       base_url |-> env.OPENROUTER_BASE_URL,
                       model |-> env.DEFAULT_MODEL,
                       llm_config |-> GetLlmConfig(key, env.OPENROUTER_BASE_URL,
                                                   env.DEFAULT_MODEL),
                       output_dir |-> OutputDirName],
              fs |-> [fsys EXCEPT !.kind = made],
              mkdir |-> TRUE]

-----------------------------------------------------------------------------
(* The extraction prompt and the strategy flags of scrape_website *)

\* _get_extraction_prompt: the fixed text with the URL and its domain put in
GetExtractionPrompt(url) ==
    <<"Extract", "Website:">> \o url \o <<"Domain:">> \o Netloc(url) \o <<"{schema}">>

Strategies == {"simple", "llm", "comprehensive"}

\* custom_prompt or self._get_extraction_prompt(url)
ExtractionPromptFor(self, url, custom_prompt) ==
    PyOr(custom_prompt, GetExtractionPrompt(url))

ChunkSize == 2000
ChunkOverlap == 200

\* a mutant of ConfigureStrategy: 'llm' gets the chunking strategy too
ConfigureStrategyChunkAll(self, url, strategy, custom_prompt) ==
    [extraction_strategy |->
        IF strategy = "simple" THEN NoneObj
        ELSE [kind |-> "LLMExtractionStrategy", llm_config |-> self.llm_config,
              extraction_prompt |-> ExtractionPromptFor(self, url, custom_prompt)],
     chunking_strategy |->
        IF strategy = "simple" THEN NoneObj
        ELSE [kind |-> "LLMChunkingStrategy", llm_config |-> self.llm_config,
              chunk_size |-> ChunkSize, chunk_overlap |-> ChunkOverlap]]

\* lines 145-163 for a known strategy: the two strategy objects
ConfigureStrategy(self, url, strategy, custom_prompt) ==
    CASE strategy = "simple" ->
            [extraction_strategy |-> NoneObj, chunking_strategy |-> NoneObj]
      [] strategy = "llm" ->
            [extraction_strategy |->
                [kind |-> "LLMExtractionStrategy", llm_config |-> self.llm_config,
                 extraction_prompt |-> ExtractionPromptFor(self, url, custom_prompt)],
             chunking_strategy |-> NoneObj]
      [] strategy = "comprehensive" ->
            [extraction_strategy |->
                [kind |-> "LLMExtractionStrategy", llm_config |-> self.llm_config,
                 extraction_prompt |-> ExtractionPromptFor(self, url, custom_prompt)],
             chunking_strategy |->
                [kind |-> "LLMChunkingStrategy", llm_config |-> self.llm_config,
                 chunk_size |-> ChunkSize, chunk_overlap |-> ChunkOverlap]]

\* a mutant of StrategyBranch: a strategy that is not known is taken as 'simple'
StrategyBranchDefaultSimple(strategy) ==
    IF strategy \in Strategies THEN strategy ELSE "simple"

\* the branch of the if/elif chain of lines 145-165 a strategy takes, "else" for
\* the last one, which raises ValueError
StrategyBranch(strategy) == IF strategy \in Strategies THEN strategy ELSE "else"

ArunTimeout == 30000
ArunMaxRetries == 3

\* the keyword arguments of crawler.arun (lines 170-178)
ArunArgs(self, url, strategy, cfg) ==
    [url |-> url,
     extraction_strategy |-> cfg.extraction_strategy,
     chunking_strategy |-> cfg.chunking_strategy,
     llm_config |-> IF strategy # "simple" THEN self.llm_config ELSE NoneObj,
     wait_for |-> "networkidle",
     timeout |-> ArunTimeout,
     max_retries |-> ArunMaxRetries]

-----------------------------------------------------------------------------
(* json.loads on the extracted content *)

\* the backquote character, which a TLA+ string cannot hold
BQ == "^"

\* the markers of a fenced block: three backquotes and json, three backquotes
FenceOpen == <<BQ, BQ, BQ, "j", "s", "o", "n">>
FenceClose == <<BQ, BQ, BQ>>

\* One element of Members stands for the text of one member of a JSON object:
\* "a" for "a": 1 and "r" for "raw_markdown": 1. No slice of the code can cut
\* such a text: the slices remove fence characters only.
Members == {"a", "r"}
MemberKey(m) == IF m = "r" THEN "raw_markdown" ELSE m

\* json.loads(s): the value kind ("error" for JSONDecodeError) and, for an object,
\* the dict. Whitespace around the value is allowed; the values of the model are
\* objects of members, the empty list and the number 1.
JsonLoads(s) ==
    LET t == Strip(s)
    IN  IF /\ Len(t) >= 2
           /\ t[1] = "{"
           /\ t[Len(t)] = "}"
           /\ \A i \in 2..(Len(t) - 1) : t[i] \in Members
        THEN [kind |-> "dict",
              val |-> [k \in {MemberKey(t[i]) : i \in 2..(Len(t) - 1)} |-> <<"1">>]]
        ELSE IF t = <<"[", "]">> THEN [kind |-> "list", val |-> <<>>]
        ELSE IF t = <<"1">> THEN [kind |-> "int", val |-> <<>>]
        ELSE [kind |-> "error", val |-> <<>>]

-----------------------------------------------------------------------------
(* _create_simple_json_structure, _create_fallback_structure,                *)
(* _parse_extracted_content, _process_results                                *)

MainContentCut == 1000      \* result.markdown[:1000]
FallbackContentCut == 500   \* result.markdown[:500]
SimpleLinksCut == 20        \* list(result.links)[:20]
FallbackLinksCut == 10      \* list(result.links)[:10]

Dots == <<".", ".", ".">>

\* md[:n] + "..." if len(md) > n else md
Shorten(md, n) == IF Len(md) > n THEN Take(md, n) \o Dots ELSE md

\* list(result.links)[:n] if result.links else []
LinksHead(links, n) == IF links # NONE /\ links # <<>> THEN Take(links, n) ELSE <<>>

CreateSimpleJsonStructure(result, url) ==
    [metadata |-> [url |-> url,
                   title |-> <<"Content from ">> \o Netloc(url),
                   description |-> "Basic scraping result",
                   language |-> "unknown",
                   word_count |-> WordCount(result.markdown)],
     content |-> [main_content |-> Shorten(result.markdown, MainContentCut),
                  full_content |-> result.markdown],
     links |-> LinksHead(result.links, SimpleLinksCut),
     scraping_method |-> "simple"]

CreateFallbackStructure(result, url) ==
    [metadata |-> [url |-> url,
                   title |-> "Extracted from markdown",
                   description |-> "Content extracted using fallback method",
                   language |-> "unknown",
                   last_updated |-> NONE,
                   word_count |-> WordCount(result.markdown)],
     content |-> [main_heading |-> <<"Content from ">> \o Netloc(url),
                  sub_headings |-> <<>>,
                  main_content |-> Shorten(result.markdown, FallbackContentCut),
                  key_points |-> <<>>,
                  call_to_actions |-> <<>>],
     navigation |-> [menu_items |-> <<>>,
                     breadcrumbs |-> <<>>,
                     footer_links |-> LinksHead(result.links, FallbackLinksCut)],
     media |-> [images |-> <<>>, videos |-> <<>>, documents |-> <<>>],
     business_info |-> [company_name |-> Netloc(url),
                        contact_info |-> [email |-> NONE, phone |-> NONE,
                                          address |-> NONE],
                        social_media |-> <<>>,
                        pricing |-> NONE],
     technical |-> [technologies |-> <<>>,
                    forms |-> <<>>,
                    external_links |-> LinksHead(result.links, FallbackLinksCut)],
     raw_markdown |-> result.markdown,
     extraction_method |-> "fallback"]

\* a mutant of CleanContent: the closing fence is left in place
CleanContentOpenOnly(content_str) ==
    IF StartsWith(content_str, FenceOpen) THEN Drop(content_str, Len(FenceOpen))
    ELSE content_str

\* lines 266-269: the fence markers are cut off the stripped content
CleanContent(content_str) ==
    LET a == IF StartsWith(content_str, FenceOpen)
             THEN Drop(content_str, 7)
             ELSE content_str
    IN  IF EndsWith(a, FenceClose) THEN Take(a, Len(a) - 3) ELSE a

\* _parse_extracted_content: the exception that leaves it ("" for none) and the
\* value it returns. Only json.JSONDecodeError is caught (line 277); the item
\* assignment of line 272 raises TypeError on a parsed value that is no dict.
ParseExtractedContent(result, url) ==
    IF result.extracted_content # ABSENT /\ Truthy(result.extracted_content)
    THEN LET parsed == JsonLoads(CleanContent(Strip(result.extracted_content)))
         IN  CASE parsed.kind = "error" ->
                    [exc |-> "", val |-> CreateFallbackStructure(result, url)]
               [] parsed.kind = "dict" ->
                    [exc |-> "",
                     val |-> ("raw_markdown" :> Shorten(result.markdown, MainContentCut))
                             @@ parsed.val]
               [] OTHER -> [exc |-> "TypeError", val |-> <<>>]
    ELSE [exc |-> "", val |-> CreateFallbackStructure(result, url)]

\* the "json" entry of the processed data (lines 243-247)
JsonOutput(result, url, strategy) ==
    IF strategy = "simple"
    THEN [exc |-> "", val |-> CreateSimpleJsonStructure(result, url)]
    ELSE ParseExtractedContent(result, url)

\* the formats _process_results puts into the processed data
Processed(result, output_formats) ==
    {f \in {"markdown", "json", "raw"} : f \in Range(output_formats)}
    \cup {f \in {"html"} : f \in Range(output_formats) /\ result.html # ABSENT}

\* _process_results: the exception that leaves it ("" for none) and the dict
ProcessResults(result, url, strategy, output_formats, now) ==
    LET js == IF "json" \in Range(output_formats)
              THEN JsonOutput(result, url, strategy)
              ELSE [exc |-> "", val |-> <<>>]
        entry(f) ==
            CASE f = "basic_info" ->
                    [url |-> url, strategy |-> strategy,
                     content_length |-> Len(result.markdown),
                     links_count |-> Len(result.links),
                     scraped_at |-> now]
              [] f = "markdown" -> result.markdown
              [] f = "html" -> result.html
              [] f = "json" -> js.val
              [] f = "raw" -> [markdown |-> result.markdown,
                               links |-> LinksHead(result.links, Len(result.links)),
                               metadata |-> result]
    IN  IF js.exc # ""
        THEN [exc |-> js.exc, val |-> <<>>]
        ELSE [exc |-> "",
              val |-> [f \in {"basic_info"} \cup Processed(result, output_formats)
                          |-> entry(f)]]

-----------------------------------------------------------------------------
(* _save_outputs *)

\* the formats in the order _save_outputs writes them
SaveOrder == <<"markdown", "json", "html", "raw">>

\* the end of a file name after the timestamp
Suffix(f) ==
    CASE f = "markdown" -> <<".md">>
      [] f = "json" -> <<".json">>
      [] f = "html" -> <<".html">>
      [] f = "raw" -> <<"_raw", ".json">>

\* datetime.now().strftime('%Y%m%d_%H%M%S'): the time to the second
Timestamp(now) == ToString(now)

\* f"{self.output_dir}/{domain}_{timestamp}" and the suffix
OutputPath(self, url, now, f) ==
    self.output_dir \o <<"/">> \o Replace(Netloc(url), ".", "_")
        \o <<"_", Timestamp(now)>> \o Suffix(f)

\* a mutant of SaveWanted: a requested format is written whether or not the
\* processed data holds it
SaveWantedAnyData(f, processed_data, output_formats) == f \in Range(output_formats)

\* the guard of each write: "f in output_formats and f in processed_data"
SaveWanted(f, processed_data, output_formats) ==
    f \in Range(output_formats) /\ f \in DOMAIN processed_data

\* _save_outputs, where the fault-th write fails (0: none does). The exception
\* is caught (line 390): the formats written before it stay in saved_files.
SaveOutputs(self, processed_data, url, output_formats, now, fault) ==
    LET wants(f) == SaveWanted(f, processed_data, output_formats)
        wanted == SelectSeq(SaveOrder, wants)
        n == IF fault = 0 \/ fault > Len(wanted) THEN Len(wanted) ELSE fault - 1
        done == {wanted[i] : i \in 1..n}
    IN  [saved_files |-> [f \in done |-> OutputPath(self, url, now, f)],
         written |-> {OutputPath(self, url, now, f) : f \in done}]

-----------------------------------------------------------------------------
(* _generate_summary_report *)

\* a mutant of IsSuccess: a result counts as successful when it has the key
IsSuccessKeyPresent(r) == "success" \in DOMAIN r

\* r.get("success", False)
IsSuccess(r) == "success" \in DOMAIN r /\ r.success

\* r.get("error", {}).get("message", "Unknown error")
ErrorMessage(r) ==
    IF "error" \in DOMAIN r /\ "message" \in DOMAIN r.error
    THEN r.error.message
    ELSE "Unknown error"

\* f"{(len(successful) / len(results) * 100):.1f}%", "0%" for no results
SuccessRate(n_ok, n) ==
    IF n = 0 THEN <<"0", "%">>
    ELSE LET tenths == (2000 * n_ok + n) \div (2 * n)
         IN  <<ToString(tenths \div 10), ".", ToString(tenths % 10), "%">>

\* _generate_summary_report: r["url"] raises KeyError on a result with no "url" key
GenerateSummaryReport(results, now) ==
    LET successful == SelectSeq(results, IsSuccess)
        isFailed(r) == ~IsSuccess(r)
        failed == SelectSeq(results, isFailed)
    IN  IF \E i \in 1..Len(results) : "url" \notin DOMAIN results[i]
        THEN [exc |-> "KeyError", val |-> <<>>]
        ELSE [exc |-> "",
              val |-> [summary |-> [total_websites |-> Len(results),
                                    successful |-> Len(successful),
                                    failed |-> Len(failed),
                                    success_rate |->
                                        SuccessRate(Len(successful), Len(results))],
                       successful_urls |->
                            [i \in 1..Len(successful) |-> successful[i].url],
                       failed_urls |-> [i \in 1..Len(failed) |-> failed[i].url],
                       errors |-> [i \in 1..Len(failed) |-> ErrorMessage(failed[i])],
                       generated_at |-> now]]

\* f"{self.output_dir}/scraping_summary_{timestamp}.json"
SummaryPath(self, now) ==
    self.output_dir \o <<"/", "scraping_summary_", Timestamp(now), ".json">>

-----------------------------------------------------------------------------
(* usage_example.py: configuration and get_output_formats *)

\* TARGET_URL, a URL with a scheme, a dotted host and the path "/"
TargetUrl == <<"h", ":", "/", "/", "a", ".", "b", "/">>

\* OUTPUT_FORMAT
OutputFormat == "json"

\* a mutant of GetOutputFormats: an unknown name gives no format at all
GetOutputFormatsOrNothing(output_format) ==
    CASE output_format = "json" -> <<"json">>
      [] output_format = "markdown" -> <<"markdown">>
      [] output_format = "both" -> <<"markdown", "json">>
      [] output_format = "all" -> <<"markdown", "json", "html", "raw">>
      [] OTHER -> <<>>

\* get_output_formats
GetOutputFormats(output_format) ==
    CASE output_format = "json" -> <<"json">>
      [] output_format = "markdown" -> <<"markdown">>
      [] output_format = "both" -> <<"markdown", "json">>
      [] output_format = "all" -> <<"markdown", "json", "html", "raw">>
      [] OTHER -> <<"markdown", "json">>

\* the tasks in the order run_all_tasks runs them
TaskNames == <<"simple", "llm", "comprehensive", "batch", "custom">>

\* the strategy each task asks for
TaskStrategy(t) ==
    CASE t = "simple" -> "simple"
      [] t = "llm" -> "llm"
      [] t = "comprehensive" -> "comprehensive"
      [] t = "batch" -> "comprehensive"
      [] t = "custom" -> "llm"

\* the custom prompt each task passes, None for the tasks that pass none
TaskPrompt(t) ==
    CASE t = "llm" -> <<"p">>
      [] t = "custom" -> <<"q">>
      [] OTHER -> NONE

\* the delay batch_scraping_task passes
TaskBatchDelay == 2

\* every task starts with ComprehensiveWebsiteScraper(output_dir=OUTPUT_DIR)
TaskInitKwargs == [output_dir |-> OutputDirName]

-----------------------------------------------------------------------------
(* The inputs and the crawler's behaviours *)

Urls ==
    { TargetUrl,                                       \* h://a.b/
      <<"h", ":", "/", "/", "a", "_", "b", "/", "p">>,  \* h://a_b/p
      <<"h", ":", "/", "/", "c">>,                      \* h://c
      <<"a", ".", "b", "/", "p">> }                     \* a.b/p, no scheme

StrategyInputs == Strategies \cup {"fast"}

FormatInputs ==
    { <<"markdown", "json">>, <<"json">>, <<"markdown", "json", "html", "raw">>,
      <<"html", "pdf">>, <<>> }

PromptInputs == {NONE, <<>>, <<"p">>}

ShortMarkdown == <<"m", " ", "m">>
FencedObject == FenceOpen \o <<"{", "a", "}">> \o FenceClose

\* a crawler result object
Page(markdown, links, html, extracted_content, chunks) ==
    [markdown |-> markdown, links |-> links, html |-> html,
     extracted_content |-> extracted_content, chunks |-> chunks]

\* a result with everything in it, the extracted content a fenced JSON object
GoodPage == Page(ShortMarkdown, <<"l">>, <<"<">>, FencedObject, ABSENT)

\* a result whose extracted content is a JSON list
ListPage == Page(ShortMarkdown, <<>>, ABSENT, <<"[", "]">>, <<"c">>)

\* what crawler.arun may return to a single scrape_website call
Pages ==
    { GoodPage,
      ListPage,
      Page(ShortMarkdown, <<"l">>, ABSENT, NONE, NONE),
      Page(NONE, <<"l">>, ABSENT, NONE, ABSENT) }

\* what crawler.arun may return in a batch
BatchPages == {GoodPage, ListPage}

\* the URLs of a batch: two pages of one host, and one of another host
BatchUrls ==
    { TargetUrl,
      <<"h", ":", "/", "/", "a", ".", "b", "/", "p">>,
      <<"h", ":", "/", "/", "c">> }
BatchStrategyInputs == {"comprehensive", "fast"}
BatchFormatInputs == {<<"markdown", "json">>}

\* the exception the crawler raises when it fails
CrawlerError == "RuntimeError"

-----------------------------------------------------------------------------
(* scrape_website: the body between the crawler's answer and the return *)

\* error_data (lines 208-216)
ErrorData(type, message, url, now) ==
    [success |-> FALSE,
     error |-> [message |-> message, type |-> type, url |-> url, timestamp |-> now]]

\* "model_used": self.model if strategy != "simple" else "none"
ModelUsed(self, strategy) == IF strategy # "simple" THEN self.model ELSE <<"none">>

\* the exception classes of the model, all of them subclasses of Exception
ExceptionClasses ==
    {"ValueError", "TypeError", "KeyError", "RuntimeError", "OSError", "FileExistsError"}

\* a mutant of CatchesException: the handler is written for ValueError alone
CatchesValueErrorOnly(type) == type = "ValueError"

\* except Exception as e (line 207): whether the handler takes an exception
CatchesException(type) == type \in ExceptionClasses

\* Lines 180-205 on the crawler's result: the exception raised ("" for none), the
\* dict the try block returns and the files written on the way.
ScrapeBody(self, fr, result, now, fault) ==
    LET failed(type, written) == [exc |-> type, r |-> <<>>, written |-> written]
        processed == ProcessResults(result, fr.url, fr.strategy, fr.output_formats, now)
        saved == SaveOutputs(self, processed.val, fr.url, fr.output_formats, now,
                             fault)
    IN  IF result.markdown = NONE \/ result.links = NONE
        THEN failed("TypeError", {})
        ELSE IF processed.exc # ""
        THEN failed(processed.exc, {})
        ELSE IF result.chunks = NONE
        THEN failed("TypeError", saved.written)
        ELSE [exc |-> "",
              r |-> [success |-> TRUE,
                     url |-> fr.url,
                     strategy |-> fr.strategy,
                     output_formats |-> fr.output_formats,
                     data |-> processed.val,
                     saved_files |-> saved.saved_files,
                     metadata |->
                       [scraped_at |-> now,
                        crawler_version |-> "Crawl4AI + OpenRouter LLM",
                        model_used |-> ModelUsed(self, fr.strategy),
                        raw_content_length |-> Len(result.markdown),
                        links_found |-> Len(result.links),
                        chunks_processed |->
                           IF result.chunks # ABSENT THEN Len(result.chunks) ELSE 0]],
              written |-> saved.written]

-----------------------------------------------------------------------------
(* The state machine *)

NoFrame == [active |-> FALSE]
NoBatch == [active |-> FALSE]
NoTasks == [active |-> FALSE]
NoRet == [done |-> FALSE]

\* how the task that ran last ended: not yet, with an exception, with a value
NoTaskEnd == [ended |-> FALSE]
TaskRaised(type) == [ended |-> TRUE, raised |-> type]
TaskReturned(v) == [ended |-> TRUE, raised |-> "", value |-> v]

Returned(v) == [done |-> TRUE, raised |-> "", value |-> v]
Raised(type) == [done |-> TRUE, raised |-> type, value |-> <<>>]

Event(e, i, x) == [e |-> e, i |-> i, x |-> x]

\* the locals of a scrape_website call; i is the position of the URL in the
\* batch, 0 for a call that is not part of a batch
NewFrame(url, strategy, output_formats, custom_prompt, caller, i) ==
    [active |-> TRUE, url |-> url, strategy |-> strategy,
     output_formats |-> output_formats, custom_prompt |-> custom_prompt,
     caller |-> caller, i |-> i,
     cfg |-> [extraction_strategy |-> NoneObj, chunking_strategy |-> NoneObj]]

NewBatch(urls, strategy, output_formats, delay, caller) ==
    [active |-> TRUE, urls |-> urls, strategy |-> strategy,
     output_formats |-> output_formats, delay |-> delay, caller |-> caller,
     i |-> 0, results |-> <<>>]

InitKwargs == {<<>>} \cup {[api_key |-> k] : k \in {NONE, <<>>, <<"k">>}}

Environs ==
    [OPENROUTER_API_KEY : {NONE, <<>>, <<"e">>},
     OPENROUTER_BASE_URL : {NONE},
     DEFAULT_MODEL : {NONE, <<"g">>}]

\* the names run_single_task is called with
TaskNameInputs == Range(TaskNames) \cup {"fast", "SIMPLE", ""}

\* the URL lists of at most MaxUrls URLs
UrlLists == UNION {[1..n -> BatchUrls] : n \in 0..MaxUrls}

\* The environment the scraping runs start from: a key and a model in the
\* environment, no output directory yet, a constructor call without arguments.
\* The constructor runs explore every environment.
ScrapeSetup ==
    /\ environ = [OPENROUTER_API_KEY |-> <<"e">>, OPENROUTER_BASE_URL |-> NONE,
                  DEFAULT_MODEL |-> <<"g">>]
    /\ fs \in [kind : {"absent"}, files : {{}}, faulty : BOOLEAN]

Init ==
    /\ clock = 0
    /\ sessions = 0
    /\ scraper = NoScraper
    /\ frame = NoFrame
    /\ batch = NoBatch
    /\ ret = NoRet
    /\ events = <<>>
    /\ \/ /\ op = "__init__"
          /\ tasks = NoTasks
          /\ environ \in Environs
          /\ fs \in [kind : {"absent", "dir", "file"}, files : {{}}, faulty : {FALSE}]
          /\ web = {}
          /\ args \in [init_kwargs : InitKwargs]
          /\ pc = "construct"
       \/ /\ op = "scrape_website"
          /\ tasks = NoTasks
          /\ ScrapeSetup
          /\ web = Pages
          /\ args \in [init_kwargs : {<<>>}, url : Urls, strategy : StrategyInputs,
                       output_formats : FormatInputs, custom_prompt : PromptInputs]
          /\ pc = "construct"
       \/ /\ op = "scrape_multiple_websites"
          /\ tasks = NoTasks
          /\ ScrapeSetup
          /\ web = BatchPages
          /\ args \in [init_kwargs : {<<>>}, urls : UrlLists,
                       strategy : BatchStrategyInputs,
                       output_formats : BatchFormatInputs,
                       delay : 0..MaxDelay]
          /\ fs.faulty => Len(args.urls) <= 1
          /\ pc = "construct"
       \/ /\ op = "run_all_tasks"
          /\ tasks = [active |-> TRUE, mode |-> "all", k |-> 1, results |-> <<>>,
                      last |-> NoTaskEnd]
          /\ environ \in Environs
          /\ fs \in [kind : {"absent", "dir", "file"}, files : {{}}, faulty : {FALSE}]
          /\ web = Pages
          /\ args = <<>>
          /\ pc = "run_all"
       \/ /\ op = "run_single_task"
          /\ tasks = [active |-> TRUE, mode |-> "single", k |-> 0, results |-> <<>>,
                      last |-> NoTaskEnd]
          /\ environ \in Environs
          /\ fs \in [kind : {"absent", "dir", "file"}, files : {{}}, faulty : {FALSE}]
          /\ web = Pages
          /\ args \in [task_name : TaskNameInputs]
          /\ pc = "run_single"

\* a mutant of SingleTaskCatches: run_single_task has no handler
SingleTaskCatchesNothing(type) == FALSE

\* except Exception as e (line 308): whether run_single_task's handler takes an
\* exception
SingleTaskCatches(type) == type \in ExceptionClasses

\* The caller's code takes over with an exception `type` raised by the task that
\* runs: run_all_tasks catches it (line 285) and returns the results so far,
\* run_single_task catches it (line 308) and returns None.
TaskRaise(type) ==
    /\ pc' = "done"
    /\ ret' = IF tasks.mode = "all" THEN Returned(tasks.results)
              ELSE IF SingleTaskCatches(type) THEN Returned(NoneObj)
              ELSE Raised(type)
    /\ tasks' = [tasks EXCEPT !.last = TaskRaised(type)]

\* The rest of a task once its scrape has returned r, and the step of
\* run_all_tasks after it; run_single_task returns what the task returns. The llm and custom tasks read
\* result['saved_files']['json'] on success, a KeyError without that key.
TaskReturn(r) ==
    LET t == TaskNames[tasks.k]
    IN  IF /\ t \in {"llm", "custom"}
           /\ IsSuccess(r)
           /\ "json" \notin DOMAIN r.saved_files
        THEN TaskRaise("KeyError")
        ELSE IF tasks.mode = "all"
        THEN /\ tasks' = [tasks EXCEPT !.results = (t :> r) @@ @, !.k = @ + 1,
                                       !.last = TaskReturned(r)]
             /\ pc' = "run_all"
             /\ ret' = ret
        ELSE /\ tasks' = [tasks EXCEPT !.last = TaskReturned(r)]
             /\ pc' = "done"
             /\ ret' = Returned(r)

\* scrape_multiple_websites leaves with an exception
BatchRaise(type) ==
    /\ batch' = NoBatch
    /\ IF batch.caller = "task"
       THEN TaskRaise(type)
       ELSE /\ ret' = Raised(type)
            /\ pc' = "done"
            /\ tasks' = tasks

\* scrape_multiple_websites returns results
BatchReturn(results) ==
    /\ batch' = NoBatch
    /\ IF batch.caller = "task"
       THEN TaskReturn(results)
       ELSE /\ ret' = Returned(results)
            /\ pc' = "done"
            /\ tasks' = tasks

\* a mutant of NeedsDelay: the delay follows the last scrape too
NeedsDelayAlways(i, n) == i <= n

\* "if i < len(urls)" (line 427): whether a delay follows the i-th of n scrapes
NeedsDelay(i, n) == i < n

\* scrape_website returns r to its caller
ScrapeReturn(r) ==
    /\ frame' = NoFrame
    /\ CASE frame.caller = "top" ->
              /\ ret' = Returned(r)
              /\ pc' = "done"
              /\ UNCHANGED <<batch, tasks>>
         [] frame.caller = "batch" ->
              /\ batch' = [batch EXCEPT !.results = Append(@, r)]
              /\ pc' = IF NeedsDelay(batch.i, Len(batch.urls))
                       THEN "batch_sleep"
                       ELSE "batch_loop"
              /\ UNCHANGED <<ret, tasks>>
         [] frame.caller = "task" ->
              /\ TaskReturn(r)
              /\ UNCHANGED batch

\* an exception leaves scrape_website and reaches its caller, none of which
\* handles it but run_all_tasks
ScrapeRaise(type) ==
    /\ frame' = NoFrame
    /\ CASE frame.caller = "top" ->
              /\ ret' = Raised(type)
              /\ pc' = "done"
              /\ UNCHANGED <<batch, tasks>>
         [] frame.caller = "batch" -> BatchRaise(type)
         [] frame.caller = "task" ->
              /\ TaskRaise(type)
              /\ UNCHANGED batch

\* An exception of the try block (lines 143-205) at time now: the handler of
\* line 207 returns error_data.
ScrapeExcept(type, message, now) ==
    IF CatchesException(type)
    THEN ScrapeReturn(ErrorData(type, message, frame.url, now))
    ELSE ScrapeRaise(type)

\* the constructor call of the direct runs
ConstructScraper ==
    /\ pc = "construct"
    /\ LET c == Construct(args.init_kwargs, environ, fs)
       IN  /\ fs' = c.fs
           /\ scraper' = c.obj
           /\ events' = IF c.mkdir THEN Append(events, Event("mkdir", 0, c.exc))
                        ELSE events
           /\ IF c.exc # ""
              THEN /\ ret' = Raised(c.exc)
                   /\ pc' = "done"
                   /\ UNCHANGED <<frame, batch>>
              ELSE CASE op = "__init__" ->
                        /\ ret' = Returned(<<>>)
                        /\ pc' = "done"
                        /\ UNCHANGED <<frame, batch>>
                     [] op = "scrape_website" ->
                        /\ frame' = NewFrame(args.url, args.strategy,
                                             args.output_formats, args.custom_prompt,
                                             "top", 0)
                        /\ pc' = "scrape_configure"
                        /\ UNCHANGED <<ret, batch>>
                     [] op = "scrape_multiple_websites" ->
                        /\ batch' = NewBatch(args.urls, args.strategy,
                                             args.output_formats, args.delay, "top")
                        /\ pc' = "batch_loop"
                        /\ UNCHANGED <<ret, frame>>
    /\ UNCHANGED <<environ, web, clock, op, args, sessions, tasks>>

\* scrape_website, lines 141-165: the strategy objects, or ValueError
ScrapeConfigure ==
    /\ pc = "scrape_configure"
    /\ IF StrategyBranch(frame.strategy) # "else"
       THEN /\ frame' = [frame EXCEPT !.cfg =
                            ConfigureStrategy(scraper, frame.url,
                                              StrategyBranch(frame.strategy),
                                              frame.custom_prompt)]
            /\ pc' = "scrape_enter"
            /\ events' = Append(events, Event("scrape_start", frame.i, frame.url))
            /\ UNCHANGED <<ret, batch, tasks>>
       ELSE /\ events' = events \o
                    << Event("scrape_start", frame.i, frame.url),
                       Event("scrape_end", frame.i, "ValueError") >>
            /\ ScrapeExcept("ValueError", "Unknown strategy", clock)
    /\ UNCHANGED <<environ, fs, web, clock, op, args, scraper, sessions>>

\* async with AsyncWebCrawler() as crawler: the session opens, or the crawler
\* fails to start
ScrapeEnter ==
    /\ pc = "scrape_enter"
    /\ \/ /\ sessions' = sessions + 1
          /\ pc' = "scrape_arun"
          /\ events' = Append(events, Event("open", frame.i, frame.url))
          /\ UNCHANGED <<frame, ret, batch, tasks>>
       \/ /\ sessions' = sessions
          /\ events' = Append(events, Event("scrape_end", frame.i, CrawlerError))
          /\ ScrapeExcept(CrawlerError, "crawler failed to start", clock)
    /\ UNCHANGED <<environ, fs, web, clock, op, args, scraper>>

\* a mutant of SessionsAfterExit: a block that raises leaves its session open
SessionsAfterExitOnSuccess(n, exc) == IF exc = "" THEN n - 1 ELSE n

\* The open sessions once the async with block of line 167 is left, n of them
\* open inside it: the crawler's __aexit__ runs and closes the session whether
\* the block ended normally or with the exception exc.
SessionsAfterExit(n, exc) == n - 1

\* await crawler.arun(...) and the rest of the with block (lines 170-205): the
\* crawl takes some time and raises or returns a result, which is processed and
\* saved; the session is closed on the way out
ScrapeCrawl ==
    /\ pc = "scrape_arun"
    /\ \E elapsed \in Elapses :
         LET now == clock + elapsed
             call == Event("arun", frame.i,
                           [strategy |-> frame.strategy,
                            custom_prompt |-> frame.custom_prompt,
                            kwargs |-> ArunArgs(scraper, frame.url, frame.strategy,
                                                frame.cfg)])
         IN  /\ clock' = now
             /\ \/ /\ fs' = fs
                   /\ sessions' = SessionsAfterExit(sessions, CrawlerError)
                   /\ events' = events \o
                        << call, Event("close", frame.i, frame.url),
                           Event("scrape_end", frame.i, CrawlerError) >>
                   /\ ScrapeExcept(CrawlerError, "crawler failed", now)
                \/ \E result \in web,
                      fault \in IF fs.faulty THEN 0..Len(SaveOrder) ELSE {0} :
                     LET b == ScrapeBody(scraper, frame, result, now, fault)
                     IN  /\ fs' = [fs EXCEPT !.files = @ \cup b.written]
                         /\ sessions' = SessionsAfterExit(sessions, b.exc)
                         /\ events' = events \o
                               << call,
                                  Event("save", frame.i, b.written),
                                  Event("close", frame.i, frame.url),
                                  Event("scrape_end", frame.i, b.exc) >>
                         /\ IF b.exc = ""
                            THEN ScrapeReturn(b.r)
                            ELSE ScrapeExcept(b.exc, "error in the with block", now)
    /\ UNCHANGED <<environ, web, op, args, scraper>>

\* a mutant of Enumerate: the list is walked from its end
EnumerateReversed(urls, k) == [i |-> k, url |-> urls[Len(urls) - k + 1]]

\* the k-th pair of enumerate(urls, 1) (line 420)
Enumerate(urls, k) == [i |-> k, url |-> urls[k]]

\* scrape_multiple_websites, the head of the loop: the next URL is scraped
BatchIterate ==
    /\ pc = "batch_loop"
    /\ batch.i < Len(batch.urls)
    /\ LET next == Enumerate(batch.urls, batch.i + 1)
       IN  /\ batch' = [batch EXCEPT !.i = next.i]
           /\ frame' = NewFrame(next.url, batch.strategy, batch.output_formats,
                                NONE, "batch", next.i)
    /\ pc' = "scrape_configure"
    /\ UNCHANGED <<environ, fs, web, clock, op, args, scraper, sessions, tasks, ret,
                   events>>

\* await asyncio.sleep(delay) after a scrape that is not the last (lines 427-429):
\* the coroutine resumes delay seconds later, or a little after that
BatchSleep ==
    /\ pc = "batch_sleep"
    /\ \E late \in Elapses : clock' = clock + batch.delay + late
    /\ events' = Append(events, Event("sleep", batch.i, batch.delay))
    /\ pc' = "batch_loop"
    /\ UNCHANGED <<environ, fs, web, op, args, scraper, frame, sessions, batch, tasks,
                   ret>>

\* scrape_multiple_websites after the loop (lines 431-442): the summary is built
\* and written (the write fails when `fault`), the results are returned
BatchSummary ==
    /\ pc = "batch_loop"
    /\ batch.i = Len(batch.urls)
    /\ LET s == GenerateSummaryReport(batch.results, clock)
       IN  IF s.exc # ""
           THEN /\ BatchRaise(s.exc)
                /\ events' = Append(events, Event("summary", 0, s.exc))
                /\ fs' = fs
           ELSE \E fault \in IF fs.faulty THEN BOOLEAN ELSE {FALSE} :
                  IF fault
                  THEN /\ BatchRaise("OSError")
                       /\ events' = Append(events, Event("summary", 0, "OSError"))
                       /\ fs' = fs
                  ELSE /\ BatchReturn(batch.results)
                       /\ events' = Append(events, Event("summary", 0, ""))
                       /\ fs' = [fs EXCEPT !.files = @ \cup {SummaryPath(scraper, clock)}]
    /\ UNCHANGED <<environ, web, clock, op, args, scraper, frame, sessions>>

\* The start of the k-th task: a task first constructs its scraper; an exception
\* of that call leaves the task and is caught by the caller.
StartTask(k) ==
    LET t == TaskNames[k]
        c == Construct(TaskInitKwargs, environ, fs)
        formats == GetOutputFormats(OutputFormat)
    IN  /\ fs' = c.fs
        /\ scraper' = c.obj
        /\ events' = Append(events, Event("task", k, c.exc))
        /\ IF c.exc # ""
           THEN /\ TaskRaise(c.exc)
                /\ UNCHANGED <<frame, batch>>
           ELSE IF t = "batch"
           THEN /\ batch' = NewBatch(<<TargetUrl>>, TaskStrategy(t), formats,
                                     TaskBatchDelay, "task")
                /\ pc' = "batch_loop"
                /\ UNCHANGED <<frame, tasks, ret>>
           ELSE /\ frame' = NewFrame(TargetUrl, TaskStrategy(t), formats,
                                     TaskPrompt(t), "task", 0)
                /\ pc' = "scrape_configure"
                /\ UNCHANGED <<batch, tasks, ret>>

\* run_all_tasks: the next task is started (lines 268-272), or, after the last
\* one, the results are returned.
RunTask ==
    /\ pc = "run_all"
    /\ IF tasks.k > Len(TaskNames)
       THEN /\ ret' = Returned(tasks.results)
            /\ pc' = "done"
            /\ UNCHANGED <<fs, scraper, frame, batch, tasks, events>>
       ELSE StartTask(tasks.k)
    /\ UNCHANGED <<environ, web, clock, op, args, sessions>>

\* "task_name not in tasks" (line 300)
KnownTask(task_name) == \E k \in 1..Len(TaskNames) : TaskNames[k] = task_name

\* run_single_task (lines 290-310): None for a name that is not a task's,
\* otherwise the task of that name is started
RunSingleTask ==
    /\ pc = "run_single"
    /\ IF ~KnownTask(args.task_name)
       THEN /\ ret' = Returned(NoneObj)
            /\ pc' = "done"
            /\ UNCHANGED <<fs, scraper, frame, batch, tasks, events>>
       ELSE LET k == CHOOSE j \in 1..Len(TaskNames) : TaskNames[j] = args.task_name
            IN  StartTask(k)
    /\ UNCHANGED <<environ, web, clock, op, args, sessions>>

Next ==
    \/ ConstructScraper
    \/ ScrapeConfigure
    \/ ScrapeEnter
    \/ ScrapeCrawl
    \/ BatchIterate
    \/ BatchSleep
    \/ BatchSummary
    \/ RunTask
    \/ RunSingleTask

Spec == Init /\ [][Next]_vars

-----------------------------------------------------------------------------
(* The functions without effects called on their own: _process_results and    *)
(* _parse_extracted_content on a wide range of crawler results,               *)
(* get_output_formats on a range of names, _generate_summary_report on lists  *)
(* of results                                                                 *)

\* the texts put where the JSON value goes: four objects, a list, a number, a
\* word and nothing
Bodies ==
    { <<"{", "}">>, <<"{", "a", "}">>, <<"{", "r", "}">>, <<"{", "a", "r", "}">>,
      <<"[", "]">>, <<"1">>, <<"x">>, <<>> }

Wraps ==
    {"plain", "fenced", "fenced_spaced", "padded", "open_only", "close_only",
     "bare_fence"}

\* a text wrapped the ways an LLM wraps its answer
Wrap(body, w) ==
    CASE w = "plain" -> body
      [] w = "fenced" -> FenceOpen \o body \o FenceClose
      [] w = "fenced_spaced" -> FenceOpen \o <<" ">> \o body \o <<" ">> \o FenceClose
      [] w = "padded" -> <<" ">> \o FenceOpen \o body \o FenceClose \o <<" ">>
      [] w = "open_only" -> FenceOpen \o body
      [] w = "close_only" -> body \o FenceClose
      [] w = "bare_fence" -> FenceClose \o body \o FenceClose

\* a markdown text of n characters, in words of six letters
MarkdownOfLen(n) == [i \in 1..n |-> IF i % 7 = 0 THEN " " ELSE "m"]

MarkdownLens ==
    {0, 3, FallbackContentCut, FallbackContentCut + 1, MainContentCut,
     MainContentCut + 1}

\* the arguments of the two calls: a result whose extracted content is a
\* wrapped text, None or missing, and what went into it
ProcessInputs(lens, htmls, strategies, formats) ==
    { [result |-> Page(MarkdownOfLen(n), <<"l">>, h, ec.text, ABSENT),
       url |-> TargetUrl, strategy |-> st, output_formats |-> fm,
       body |-> ec.body, wrap |-> ec.wrap] :
        n \in lens, h \in htmls, st \in strategies, fm \in formats,
        ec \in {[text |-> Wrap(b, w), body |-> b, wrap |-> w] :
                    b \in Bodies, w \in Wraps}
               \cup {[text |-> NONE, body |-> <<>>, wrap |-> "none"],
                     [text |-> ABSENT, body |-> <<>>, wrap |-> "absent"]} }

\* the names get_output_formats is called with: the four it knows, the names of
\* formats it does not know as names, other spellings, the empty string
FormatNameInputs ==
    {"json", "markdown", "both", "all", "html", "raw", "JSON", "Both", " all", "pdf", ""}

\* The results _generate_summary_report is called with, reduced to the keys it
\* reads: two successes, the failure scrape_website builds (no "url" key at the
\* top), a failure that has the key, a dict with "url" alone.
SummaryResults ==
    { [success |-> TRUE, url |-> TargetUrl],
      [success |-> TRUE, url |-> <<"h", ":", "/", "/", "c">>],
      ErrorData("ValueError", "Unknown strategy", TargetUrl, 0),
      [success |-> FALSE, url |-> <<"h", ":", "/", "/", "d">>,
       error |-> [message |-> "crawler failed"]],
      [url |-> <<"h", ":", "/", "/", "e">>] }

SummaryResultLists == UNION {[1..n -> SummaryResults] : n \in 0..MaxResults}

InitProcess ==
    /\ environ = [OPENROUTER_API_KEY |-> <<"e">>, OPENROUTER_BASE_URL |-> NONE,
                  DEFAULT_MODEL |-> <<"g">>]
    /\ fs = [kind |-> "dir", files |-> {}, faulty |-> FALSE]
    /\ web = {}
    /\ clock = 0
    /\ sessions = 0
    /\ scraper = NoScraper
    /\ frame = NoFrame
    /\ batch = NoBatch
    /\ tasks = NoTasks
    /\ ret = NoRet
    /\ events = <<>>
    /\ pc = "call"
    /\ \/ /\ op = "_parse_extracted_content"
          /\ args \in ProcessInputs(MarkdownLens, {ABSENT}, {"llm"}, {<<"json">>})
       \/ /\ op = "_process_results"
          /\ args \in ProcessInputs({3, MainContentCut + 1}, {ABSENT, <<"<">>},
                                    Strategies,
                                    {<<"json">>, <<"markdown">>,
                                     <<"markdown", "json", "html", "raw">>})
       \/ /\ op = "get_output_formats"
          /\ args \in [output_format : FormatNameInputs]
       \/ /\ op = "_generate_summary_report"
          /\ args \in [results : SummaryResultLists]

\* what a call that ended with exception exc or value val hands back
Outcome(exc, val) == IF exc = "" THEN Returned(val) ELSE Raised(exc)

ParseExtractedContentCall ==
    /\ pc = "call"
    /\ op = "_parse_extracted_content"
    /\ LET r == ParseExtractedContent(args.result, args.url)
       IN  ret' = Outcome(r.exc, r.val)
    /\ pc' = "done"
    /\ UNCHANGED <<environ, fs, web, clock, op, args, scraper, frame, sessions, batch,
                   tasks, events>>

ProcessResultsCall ==
    /\ pc = "call"
    /\ op = "_process_results"
    /\ LET r == ProcessResults(args.result, args.url, args.strategy,
                               args.output_formats, clock)
       IN  ret' = Outcome(r.exc, r.val)
    /\ pc' = "done"
    /\ UNCHANGED <<environ, fs, web, clock, op, args, scraper, frame, sessions, batch,
                   tasks, events>>

GetOutputFormatsCall ==
    /\ pc = "call"
    /\ op = "get_output_formats"
    /\ ret' = Returned(GetOutputFormats(args.output_format))
    /\ pc' = "done"
    /\ UNCHANGED <<environ, fs, web, clock, op, args, scraper, frame, sessions, batch,
                   tasks, events>>

GenerateSummaryReportCall ==
    /\ pc = "call"
    /\ op = "_generate_summary_report"
    /\ LET r == GenerateSummaryReport(args.results, clock)
       IN  ret' = Outcome(r.exc, r.val)
    /\ pc' = "done"
    /\ UNCHANGED <<environ, fs, web, clock, op, args, scraper, frame, sessions, batch,
                   tasks, events>>

NextProcess ==
    \/ ParseExtractedContentCall
    \/ ProcessResultsCall
    \/ GetOutputFormatsCall
    \/ GenerateSummaryReportCall

SpecProcess == InitProcess /\ [][NextProcess]_vars

-----------------------------------------------------------------------------
(* What the properties below read off a state *)

\* the run has ended and its scraper had been constructed
Finished == ret.done /\ scraper.constructed

\* the events of one kind, in order
EventsOf(kind) ==
    LET is(ev) == ev.e = kind
    IN  SelectSeq(events, is)

\* the URL a result of scrape_website is about
ResultUrl(r) == IF r.success THEN r.url ELSE r.error.url

\* the results of scrape_website calls the state holds
ResultsHeld ==
    (IF op = "scrape_website" /\ ret.done /\ ret.raised = "" THEN {ret.value} ELSE {})
    \cup (IF batch.active THEN Range(batch.results) ELSE {})
    \cup (IF op = "scrape_multiple_websites" /\ ret.done /\ ret.raised = ""
          THEN Range(ret.value) ELSE {})

\* position of the last "/" of a path, 0 when it has none
LastSlash(path) ==
    IF \E i \in 1..Len(path) : path[i] = "/"
    THEN CHOOSE i \in 1..Len(path) :
            path[i] = "/" /\ \A j \in (i + 1)..Len(path) : path[j] # "/"
    ELSE 0

\* the directory a path lies in, and its file name
Dirname(path) == Take(path, LastSlash(path) - 1)
Basename(path) == Drop(path, LastSlash(path))

-----------------------------------------------------------------------------
(* C1 *)

SuccessKeys ==
    {"success", "url", "strategy", "output_formats", "data", "saved_files", "metadata"}
ErrorKeys == {"message", "type", "url", "timestamp"}

\* a result of one of the two shapes
WellFormed(r) ==
    IF r.success
    THEN DOMAIN r = SuccessKeys
    ELSE DOMAIN r = {"success", "error"} /\ DOMAIN r.error = ErrorKeys

\* C1: scrape_website never raises: whatever the URL, the strategy string and
\* the crawler's behaviour (it fails to start, arun raises, arun returns a
\* result the rest of the body cannot digest), the call returns a dict, either
\* the success dict or the error dict.
C1_ScrapeWebsiteNeverRaises ==
    /\ (op = "scrape_website" /\ Finished) => ret.raised = ""
    /\ \A r \in ResultsHeld : WellFormed(r)

\* a call whose crawler result broke the body (TypeError) came back as an error dict
C1_Witness ==
    /\ op = "scrape_website"
    /\ Finished
    /\ ret.raised = ""
    /\ ~ret.value.success
    /\ ret.value.error.type = "TypeError"
    /\ ret.value.error.url = args.url

-----------------------------------------------------------------------------
(* C2 *)

\* C2: scrape_multiple_websites, for every URL list and every mix of successful
\* and failed scrapes, ends by building the summary, writing it to the summary
\* file in the output directory and returning the list of results (stated for
\* the runs whose disk takes every write).
C2_BatchEndsWithSummary ==
    (op = "scrape_multiple_websites" /\ Finished /\ ~fs.faulty) =>
        /\ ret.raised = ""
        /\ Len(ret.value) = Len(args.urls)
        /\ events[Len(events)] = Event("summary", 0, "")
        /\ \E f \in fs.files :
              /\ Dirname(f) = scraper.output_dir
              /\ "scraping_summary_" \in Range(f)

-----------------------------------------------------------------------------
(* C3 *)

-----------------------------------------------------------------------------
(* C4 *)

\* C4: the delay is applied between consecutive requests only: each sleep is of
\* `delay` seconds, comes right after the end of a scrape that is not the last
\* and right before the start of the next one, and a batch of n URLs that has
\* run through its loop has slept max(0, n - 1) times.
C4_DelayBetweenRequests ==
    op = "scrape_multiple_websites" =>
        LET n == Len(args.urls)
        IN  /\ \A k \in 1..Len(events) :
                  events[k].e = "sleep" =>
                      /\ events[k].x = args.delay
                      /\ events[k].i < n
                      /\ k > 1
                      /\ events[k - 1].e = "scrape_end"
                      /\ events[k - 1].i = events[k].i
                      /\ k < Len(events) =>
                            /\ events[k + 1].e = "scrape_start"
                            /\ events[k + 1].i = events[k].i + 1
            /\ \A k \in 1..Len(events) :
                  (events[k].e = "scrape_start" /\ events[k].i > 1) =>
                      events[k - 1].e = "sleep"
            /\ Finished =>
                  Len(EventsOf("sleep")) = (IF n = 0 THEN 0 ELSE n - 1)

\* a batch of two URLs has ended with one sleep, taken after a failed scrape
C4_Witness ==
    /\ op = "scrape_multiple_websites"
    /\ Finished
    /\ Len(args.urls) = 2
    /\ args.delay = 1
    /\ Len(EventsOf("sleep")) = 1
    /\ \E k \in 2..Len(events) :
          /\ events[k].e = "sleep"
          /\ events[k - 1].e = "scrape_end"
          /\ events[k - 1].x # ""

-----------------------------------------------------------------------------
(* C5 *)

\* C5: what scrape_website hands to the crawler: with 'simple' no extraction
\* strategy, no chunking strategy and no LLM configuration, and a successful
\* result reports model_used 'none'; with 'llm' an LLM extraction strategy and no
\* chunking strategy; with 'comprehensive' both; the extraction prompt is the
\* custom prompt when one is given (a non-empty string: the code tests its
\* truth value) and the built-in prompt for the URL otherwise.
C5_StrategyFlags ==
    /\ \A k \in 1..Len(events) :
          events[k].e = "arun" =>
              LET strategy == events[k].x.strategy
                  custom == events[k].x.custom_prompt
                  kw == events[k].x.kwargs
              IN  /\ strategy \in Strategies
                  /\ strategy = "simple" =>
                        /\ kw.extraction_strategy = NoneObj
                        /\ kw.chunking_strategy = NoneObj
                        /\ kw.llm_config = NoneObj
                  /\ strategy = "llm" =>
                        /\ kw.extraction_strategy.kind = "LLMExtractionStrategy"
                        /\ kw.chunking_strategy = NoneObj
                  /\ strategy = "comprehensive" =>
                        /\ kw.extraction_strategy.kind = "LLMExtractionStrategy"
                        /\ kw.chunking_strategy.kind = "LLMChunkingStrategy"
                  /\ strategy \in {"llm", "comprehensive"} =>
                        /\ kw.llm_config = scraper.llm_config
                        /\ kw.extraction_strategy.extraction_prompt =
                              IF custom # NONE /\ custom # <<>>
                              THEN custom
                              ELSE <<"Extract", "Website:">> \o kw.url
                                      \o <<"Domain:">> \o Netloc(kw.url)
                                      \o <<"{schema}">>
    /\ \A r \in ResultsHeld :
          (r.success /\ r.strategy = "simple") => r.metadata.model_used = <<"none">>

\* the crawler has been called for an 'llm' scrape with a custom prompt
C5_Witness ==
    \E k \in 1..Len(events) :
        /\ events[k].e = "arun"
        /\ events[k].x.strategy = "llm"
        /\ events[k].x.custom_prompt = <<"p">>
        /\ events[k].x.kwargs.extraction_strategy.extraction_prompt = <<"p">>
        /\ events[k].x.kwargs.chunking_strategy = NoneObj

-----------------------------------------------------------------------------
(* C8 *)

\* the api_key argument of the constructor call, None when it is not passed
ApiKeyArgument ==
    IF "api_key" \in DOMAIN args.init_kwargs THEN args.init_kwargs.api_key ELSE NONE

\* C8: the constructor with no api_key argument and no OPENROUTER_API_KEY in the
\* environment (none, or an empty one: the code tests the truth value) raises
\* ValueError and does not touch the output directory; in every other case a
\* constructor that returns has taken the argument where there is one, the
\* environment value where there is none, and the output directory exists.
C8_Constructor ==
    (op = "__init__" /\ ret.done) =>
        IF ~Truthy(ApiKeyArgument) /\ ~Truthy(environ.OPENROUTER_API_KEY)
        THEN /\ ret.raised = "ValueError"
             /\ EventsOf("mkdir") = <<>>
             /\ ~scraper.constructed
        ELSE ret.raised = "" =>
                /\ scraper.constructed
                /\ Truthy(ApiKeyArgument) => scraper.api_key = ApiKeyArgument
                /\ ~Truthy(ApiKeyArgument) =>
                      scraper.api_key = environ.OPENROUTER_API_KEY
                /\ fs.kind = "dir"
                /\ scraper.output_dir = OutputDirName

\* a constructor given a key, with another key in the environment, has returned
C8_Witness ==
    /\ op = "__init__"
    /\ ret.done
    /\ ret.raised = ""
    /\ Truthy(ApiKeyArgument)
    /\ Truthy(environ.OPENROUTER_API_KEY)
    /\ ApiKeyArgument # environ.OPENROUTER_API_KEY
    /\ scraper.api_key = ApiKeyArgument
    /\ Len(EventsOf("mkdir")) = 1

-----------------------------------------------------------------------------
(* C9 *)

KnownFormats == {"markdown", "json", "html", "raw"}

\* what follows the stem in the name of a saved file
FileEndings == {<<".md">>, <<".json">>, <<".html">>, <<"_raw", ".json">>}

\* the stem of the files of a scrape of url at time t
StemAt(url, t) ==
    [i \in 1..Len(Netloc(url)) |-> IF Netloc(url)[i] = "." THEN "_" ELSE Netloc(url)[i]]
        \o <<"_", ToString(t)>>

\* C9: the saved_files of one scrape_website call have a key only for a format
\* that is in output_formats, is one of markdown, json, html and raw, and is in
\* the processed data; every path lies in the output directory, and the file
\* names share one stem: the URL's network location with '_' for every '.',
\* then '_' and one timestamp; after the stem comes the ending of the format
\* (.md, .json, .html, and _raw.json for the raw data).
C9_SavedFiles ==
    \A r \in ResultsHeld :
        r.success =>
            /\ \A f \in DOMAIN r.saved_files :
                  /\ f \in Range(r.output_formats)
                  /\ f \in KnownFormats
                  /\ f \in DOMAIN r.data
                  /\ Dirname(r.saved_files[f]) = scraper.output_dir
                  /\ r.saved_files[f] \in fs.files
            /\ \E t \in 0..clock :
                  \A f \in DOMAIN r.saved_files :
                      LET name == Basename(r.saved_files[f])
                          stem == StemAt(r.url, t)
                      IN  /\ Take(name, Len(stem)) = stem
                          /\ Drop(name, Len(stem)) \in FileEndings
            /\ \A f, g \in DOMAIN r.saved_files :
                  f # g => r.saved_files[f] # r.saved_files[g]

\* a call asked for html too, got a result without html, and saved the rest
C9_Witness ==
    /\ op = "scrape_website"
    /\ Finished
    /\ ret.raised = ""
    /\ ret.value.success
    /\ "html" \in Range(args.output_formats)
    /\ DOMAIN ret.value.saved_files = {"markdown", "json", "raw"}
    /\ "." \in Range(Netloc(args.url))

-----------------------------------------------------------------------------
(* C10 *)

\* C10: run_all_tasks runs the simple, llm, comprehensive, batch and custom tasks
\* in that order, each after the one before it has returned, and the mapping it
\* returns has an entry for each of the five.
C10_RunAllTasks ==
    (op = "run_all_tasks" /\ ret.done) =>
        /\ ret.raised = ""
        /\ DOMAIN ret.value = Range(TaskNames)
        /\ Len(EventsOf("task")) = Len(TaskNames)
        /\ \A k \in 1..Len(EventsOf("task")) : EventsOf("task")[k].i = k

-----------------------------------------------------------------------------
(* C6 *)

\* the extracted content is there, not empty, and parses as JSON once cleaned
ParsesAsJson(result) ==
    /\ result.extracted_content # ABSENT
    /\ result.extracted_content # NONE
    /\ result.extracted_content # <<>>
    /\ JsonLoads(CleanContent(Strip(result.extracted_content))).kind # "error"

\* C6: with 'json' among the output formats the JSON output is one of the fixed
\* shapes: the simple structure with strategy 'simple'; with another strategy
\* the parsed extracted content when that is non-empty and parses as JSON, the
\* fallback structure otherwise; no extracted content makes the processing fail.
C6_JsonShapes ==
    (/\ op = "_process_results"
     /\ ret.done
     /\ "json" \in Range(args.output_formats)) =>
        /\ ret.raised = ""
        /\ "json" \in DOMAIN ret.value
        /\ IF args.strategy = "simple"
           THEN /\ "scraping_method" \in DOMAIN ret.value.json
                /\ ret.value.json.scraping_method = "simple"
           ELSE IF ParsesAsJson(args.result)
           THEN /\ "raw_markdown" \in DOMAIN ret.value.json
                /\ "extraction_method" \notin DOMAIN ret.value.json
           ELSE /\ "extraction_method" \in DOMAIN ret.value.json
                /\ ret.value.json.extraction_method = "fallback"

-----------------------------------------------------------------------------
(* C7 *)

\* the text of a JSON object
IsObjectText(body) ==
    /\ Len(body) >= 2
    /\ body[1] = "{"
    /\ body[Len(body)] = "}"

\* the dict a JSON object text stands for, with the raw_markdown entry put in
ObjectWithMarkdown(body, markdown) ==
    [k \in {MemberKey(body[i]) : i \in 2..(Len(body) - 1)} \cup {"raw_markdown"} |->
        IF k = "raw_markdown"
        THEN IF Len(markdown) > 1000
             THEN SubSeq(markdown, 1, 1000) \o <<".", ".", ".">>
             ELSE markdown
        ELSE <<"1">>]

\* C7: a JSON object in a fence (three backquotes and json before it, three
\* backquotes after it) parses to what the object without the fence parses to,
\* and either way the result has raw_markdown: the markdown, cut to its first
\* 1000 characters and '...' when it is longer than 1000.
C7_FenceStripped ==
    (/\ op = "_parse_extracted_content"
     /\ ret.done
     /\ IsObjectText(args.body)
     /\ args.wrap \in {"plain", "fenced", "fenced_spaced", "padded"}) =>
        /\ ret.raised = ""
        /\ ret.value = ObjectWithMarkdown(args.body, args.result.markdown)

\* a fenced object was parsed next to a markdown of more than 1000 characters
C7_Witness ==
    /\ op = "_parse_extracted_content"
    /\ ret.done
    /\ args.wrap = "fenced"
    /\ args.body = <<"{", "a", "}">>
    /\ Len(args.result.markdown) = 1001
    /\ ret.raised = ""
    /\ DOMAIN ret.value = {"a", "raw_markdown"}
    /\ Len(ret.value.raw_markdown) = 1003

-----------------------------------------------------------------------------
(* C11 *)

\* C11: run_single_task called with a name that is not simple, llm,
\* comprehensive, batch or custom returns None and starts no task; called with
\* one of these names it starts the task of that name and no other, returns
\* what the task returns, and returns None when the task raises an exception;
\* it never raises.
C11_RunSingleTask ==
    (op = "run_single_task" /\ ret.done) =>
        /\ ret.raised = ""
        /\ IF args.task_name \notin {"simple", "llm", "comprehensive", "batch", "custom"}
           THEN /\ ret.value = NoneObj
                /\ events = <<>>
                /\ ~tasks.last.ended
           ELSE /\ Len(EventsOf("task")) = 1
                /\ TaskNames[EventsOf("task")[1].i] = args.task_name
                /\ tasks.last.ended
                /\ IF tasks.last.raised # ""
                   THEN ret.value = NoneObj
                   ELSE ret.value = tasks.last.value

\* run_single_task has run the llm task, which raised, and has returned None
C11_Witness ==
    /\ op = "run_single_task"
    /\ ret.done
    /\ args.task_name = "llm"
    /\ Len(EventsOf("task")) = 1
    /\ tasks.last.ended
    /\ tasks.last.raised = "TypeError"
    /\ ret.raised = ""
    /\ ret.value = NoneObj

-----------------------------------------------------------------------------
(* C12 *)

\* C12: get_output_formats gives [json] for 'json', [markdown] for 'markdown',
\* [markdown, json] for 'both', [markdown, json, html, raw] for 'all', and for
\* every other name what it gives for 'both'; the list is never empty and holds
\* only markdown, json, html and raw, the formats the scraper knows.
C12_GetOutputFormats ==
    (op = "get_output_formats" /\ ret.done) =>
        /\ ret.raised = ""
        /\ args.output_format = "json" => ret.value = <<"json">>
        /\ args.output_format = "markdown" => ret.value = <<"markdown">>
        /\ args.output_format = "both" => ret.value = <<"markdown", "json">>
        /\ args.output_format = "all" =>
                ret.value = <<"markdown", "json", "html", "raw">>
        /\ args.output_format \notin {"json", "markdown", "both", "all"} =>
                ret.value = <<"markdown", "json">>
        /\ ret.value # <<>>
        /\ Range(ret.value) \subseteq KnownFormats
        /\ Range(ret.value) \subseteq Range(SaveOrder)

\* get_output_formats was called with a name it does not know and has answered
\* as for 'both'
C12_Witness ==
    /\ op = "get_output_formats"
    /\ ret.done
    /\ args.output_format = "JSON"
    /\ ret.value = <<"markdown", "json">>

-----------------------------------------------------------------------------
(* C13 *)

\* the result has "success" set
Succeeded(r) == "success" \in DOMAIN r /\ r.success = TRUE

\* the positions of the results that succeeded (ok) or did not
PositionsOf(results, ok) == {i \in 1..Len(results) : Succeeded(results[i]) = ok}

\* the j-th of these positions from the left
NthPosition(results, ok, j) ==
    CHOOSE i \in PositionsOf(results, ok) :
        Cardinality({h \in PositionsOf(results, ok) : h <= i}) = j

C13_WitnessEmpty ==
    /\ op = "_generate_summary_report"
    /\ ret.done
    /\ args.results = <<>>
    /\ ret.raised = ""
    /\ ret.value.summary.success_rate = <<"0", "%">>

-----------------------------------------------------------------------------
(* C14 *)

\* C14: scrape_website called with a strategy that is not 'simple', 'llm' or
\* 'comprehensive' returns a result with success False and error type
\* 'ValueError'; no crawler session was opened, crawler.arun was not called and
\* no file was written. The same holds of every scrape of a batch run with such
\* a strategy, where the one file there can be is the summary of the batch.
C14_UnknownStrategy ==
    /\ (/\ op = "scrape_website"
        /\ Finished
        /\ args.strategy \notin {"simple", "llm", "comprehensive"}) =>
            /\ ret.raised = ""
            /\ ret.value.success = FALSE
            /\ ret.value.error.type = "ValueError"
            /\ ret.value.error.url = args.url
            /\ EventsOf("open") = <<>>
            /\ EventsOf("arun") = <<>>
            /\ EventsOf("save") = <<>>
            /\ sessions = 0
            /\ fs.files = {}
    /\ (/\ op = "scrape_multiple_websites"
        /\ scraper.constructed
        /\ args.strategy \notin {"simple", "llm", "comprehensive"}) =>
            /\ EventsOf("open") = <<>>
            /\ EventsOf("arun") = <<>>
            /\ EventsOf("save") = <<>>
            /\ sessions = 0
            /\ \A f \in fs.files : \E t \in 0..clock : f = SummaryPath(scraper, t)
            /\ batch.active =>
                  \A k \in 1..Len(batch.results) :
                      /\ batch.results[k].success = FALSE
                      /\ batch.results[k].error.type = "ValueError"

\* scrape_website has returned from a call with the strategy 'fast'
C14_Witness ==
    /\ op = "scrape_website"
    /\ Finished
    /\ args.strategy = "fast"
    /\ EventsOf("scrape_start") # <<>>
    /\ ret.raised = ""
    /\ ret.value.success = FALSE
    /\ ret.value.error.type = "ValueError"
    /\ fs.files = {}

-----------------------------------------------------------------------------
(* C15 *)

\* the positions in events of the saves of a batch's scrapes
SavePositions == {k \in 1..Len(events) : events[k].e = "save"}

\* C15: in one scrape_multiple_websites call the files written by the scrapes
\* of two different URLs are distinct, so that no scrape of the batch
\* overwrites a file of another; for every URL list and every delay, 0
\* included.
C15_NoOverwrite ==
    op = "scrape_multiple_websites" =>
        \A k, l \in SavePositions :
            args.urls[events[k].i] # args.urls[events[l].i] =>
                events[k].x \cap events[l].x = {}

-----------------------------------------------------------------------------
(* C16 *)

\* the number of events of one kind among the first k events
CountBefore(kind, k) == Cardinality({j \in 1..k : events[j].e = kind})

\* C16: during scrape_multiple_websites at most one crawler session is open at
\* any time; where a scrape starts, every session opened before has been
\* closed, also when the scrape before failed inside its session; no session is
\* open between two scrapes, and none when the batch has returned or raised.
C16_OneSession ==
    op = "scrape_multiple_websites" =>
        /\ sessions \in {0, 1}
        /\ sessions = CountBefore("open", Len(events)) - CountBefore("close", Len(events))
        /\ \A k \in 1..Len(events) :
              /\ CountBefore("open", k) - CountBefore("close", k) \in {0, 1}
              /\ events[k].e \in {"scrape_start", "sleep", "summary"} =>
                    CountBefore("open", k) = CountBefore("close", k)
        /\ pc \in {"batch_loop", "batch_sleep", "scrape_configure", "scrape_enter",
                   "done"} => sessions = 0
        /\ ret.done => sessions = 0

\* the first scrape of a batch failed inside its session, and the session of the
\* second scrape is open
C16_Witness ==
    /\ op = "scrape_multiple_websites"
    /\ batch.active
    /\ batch.i = 2
    /\ pc = "scrape_arun"
    /\ sessions = 1
    /\ \E k \in 1..Len(events) :
          /\ events[k].e = "scrape_end"
          /\ events[k].i = 1
          /\ events[k].x # ""
          /\ events[k - 1].e = "close"
          /\ events[k - 1].i = 1
    /\ CountBefore("open", Len(events)) = 2
    /\ CountBefore("close", Len(events)) = 1

====
